---- MODULE Spec2Model ----
(***************************************************************************)
(* Model of stream_extractor.py: links.txt -> streams.m3u.                 *)
(*                                                                         *)
(* Text is modelled as sequences of one-character strings, so that         *)
(* split/strip/regex/format are computed character by character.           *)
(* Python's None and "" are both falsy and are both written <<>> here      *)
(* (every place the code tests them it uses truthiness only).              *)
(***************************************************************************)
EXTENDS Integers, Sequences, FiniteSets, TLC

(***************************************************************************)
(* Bounds of the model.                                                    *)
(***************************************************************************)
\* most raw lines of an input file with several lines
MaxLines == 3
\* longest line of the one-line input files over LineAlphabet
MaxLen == 3
\* number of Piped mirrors kept of the 12 configured ones
NumPiped == 2
\* number of Invidious mirrors kept of the 10 configured ones
NumInvidious == 2
\* size of the worker pool (10 in the source), kept below MaxLines so that
\* the pool limit is reached
MAX_THREADS == 2
\* longest adaptiveFormats list of the answers the layers are called on alone
MaxFormats == 2

(***************************************************************************)
(* CONFIG                                                                  *)
(***************************************************************************)
FALLBACK_URL ==
    <<"h","t","t","p","s",":","/","/","r","a","w",".","g","i","t","h","u","b","u","s","e",
      "r","c","o","n","t","e","n","t",".","c","o","m","/","f","a","k","u","z","/","S",
      "t","r","e","a","m","t","o","m","3","u","/","r","e","f","s","/","h","e","a","d",
      "s","/","m","a","i","n","/","f","a","l","l","b","a","c","k","/","f","a","l","l",
      "b","a","c","k",".","m","3","u","8">>

EPG_URLS ==
    << <<"h","t","t","p","s",":","/","/","i","p","t","v","-","o","r","g",".","g","i","t",
         "h","u","b",".","i","o","/","e","p","g","/","g","u","i","d","e","s","/","e","s",
         ".","x","m","l">> >>

API_RETRIES == 2

\* the mirror lists, cut to NumPiped and NumInvidious entries; a mirror is
\* named by its list and its position
PIPED_APIS == [i \in 1..NumPiped |-> <<"pipedapi", i>>]

INVIDIOUS_APIS == [i \in 1..NumInvidious |-> <<"invidious", i>>]

\* Python's None (and the empty string)
None == <<>>

(***************************************************************************)
(* Text helpers: what str.strip, str.split, str.lower, "in", ",".join and  *)
(* str.splitlines compute.                                                 *)
(***************************************************************************)
IsSpace(c) == c \in {" ", "\t", "\n", "\r", "\f"}

RECURSIVE LStrip(_)
LStrip(s) == IF s # <<>> /\ IsSpace(Head(s)) THEN LStrip(Tail(s)) ELSE s

RECURSIVE RStrip(_)
RStrip(s) ==
    IF s # <<>> /\ IsSpace(s[Len(s)]) THEN RStrip(SubSeq(s, 1, Len(s) - 1)) ELSE s

\* str.strip()
Strip(s) == RStrip(LStrip(s))

\* s.split(sep) for a one-character separator: always at least one part
RECURSIVE Split(_, _)
Split(s, sep) ==
    IF \E i \in 1..Len(s) : s[i] = sep
    THEN LET i == CHOOSE k \in 1..Len(s) :
                      s[k] = sep /\ \A j \in 1..(k - 1) : s[j] # sep
         IN  <<SubSeq(s, 1, i - 1)>> \o Split(SubSeq(s, i + 1, Len(s)), sep)
    ELSE <<s>>

\* sub matches s at position i
MatchAt(sub, s, i) ==
    /\ i >= 1
    /\ i + Len(sub) - 1 <= Len(s)
    /\ \A k \in 1..Len(sub) : s[i + k - 1] = sub[k]

\* sub in s
Contains(sub, s) == \E i \in 1..(Len(s) + 1) : MatchAt(sub, s, i)

LowerLetters ==
    <<"a","b","c","d","e","f","g","h","i","j","k","l","m","n","o","p","q","r","s","t","u",
      "v","w","x","y","z">>

UpperLetters ==
    <<"A","B","C","D","E","F","G","H","I","J","K","L","M","N","O","P","Q","R","S","T","U",
      "V","W","X","Y","Z">>

Digits == <<"0","1","2","3","4","5","6","7","8","9">>

Range(f) == {f[i] : i \in DOMAIN f}

LowerChar(c) ==
    IF c \in Range(UpperLetters)
    THEN LowerLetters[CHOOSE i \in 1..Len(UpperLetters) : UpperLetters[i] = c]
    ELSE c

\* str.lower()
Lower(s) == [i \in 1..Len(s) |-> LowerChar(s[i])]

\* sep.join(parts)
RECURSIVE Join(_, _)
Join(parts, sep) ==
    IF parts = <<>> THEN <<>>
    ELSE IF Len(parts) = 1 THEN parts[1]
    ELSE parts[1] \o sep \o Join(Tail(parts), sep)

\* concatenation of a sequence of texts
RECURSIVE Concat(_)
Concat(parts) == IF parts = <<>> THEN <<>> ELSE Head(parts) \o Concat(Tail(parts))

IsLineBreak(c) == c \in {"\n", "\r", "\f"}

\* str.splitlines(): the lines without their line breaks; no empty last line
RECURSIVE SplitLines(_)
SplitLines(s) ==
    IF s = <<>> THEN <<>>
    ELSE IF \E i \in 1..Len(s) : IsLineBreak(s[i])
    THEN LET i == CHOOSE k \in 1..Len(s) :
                      IsLineBreak(s[k]) /\ \A j \in 1..(k - 1) : ~IsLineBreak(s[j])
         IN  <<SubSeq(s, 1, i - 1)>> \o SplitLines(SubSeq(s, i + 1, Len(s)))
    ELSE <<s>>

(***************************************************************************)
(* Utilidades                                                              *)
(***************************************************************************)
\* normalize_id whose substitution stops after the first match (count=1)
normalize_id_FirstOnly(text) ==
    LET low == Lower(text)
        Keep(c) == c \in Range(LowerLetters) \cup Range(Digits)
        bad == {i \in 1..Len(low) : ~Keep(low[i])}
    IN  IF bad = {} THEN low
        ELSE LET i == CHOOSE k \in bad : \A j \in bad : k <= j
             IN  SubSeq(low, 1, i - 1) \o SubSeq(low, i + 1, Len(low))

\* re.sub(r'[^a-z0-9]', '', text.lower())
normalize_id(text) ==
    LET low == Lower(text)
        Keep(c) == c \in Range(LowerLetters) \cup Range(Digits)
    IN  SelectSeq(low, Keep)

\* parse_line that takes the third field whenever it is there, empty or not
parse_line_NoNameDefault(line) ==
    LET raw == Split(line, "|")
        parts == [i \in 1..Len(raw) |-> Strip(raw[i])]
        url == parts[1]
        category == IF Len(parts) > 1 /\ parts[2] # <<>>
                    THEN parts[2]
                    ELSE <<"G","e","n","e","r","a","l">>
        channel_name == IF Len(parts) > 2 THEN parts[3] ELSE url
    IN  <<url, category, channel_name>>

\* 'URL | Categoria | Nombre' -> <<url, category, channel_name>>
parse_line(line) ==
    LET raw == Split(line, "|")
        parts == [i \in 1..Len(raw) |-> Strip(raw[i])]
        url == parts[1]
        category == IF Len(parts) > 1 /\ parts[2] # <<>>
                    THEN parts[2]
                    ELSE <<"G","e","n","e","r","a","l">>
        channel_name == IF Len(parts) > 2 /\ parts[3] # <<>> THEN parts[3] ELSE url
    IN  <<url, category, channel_name>>

IsIdChar(c) ==
    c \in Range(LowerLetters) \cup Range(UpperLetters) \cup Range(Digits) \cup {"_", "-"}

\* length of the run of id characters of s that starts at position i
RECURSIVE IdRun(_, _)
IdRun(s, i) == IF i <= Len(s) /\ IsIdChar(s[i]) THEN 1 + IdRun(s, i + 1) ELSE 0

\* where the id starts if (?:v=|youtu\.be/)([A-Za-z0-9_-]{6,}) matches at i, else 0
IdStartAt(s, i) ==
    LET a == <<"v","=">>
        b == <<"y","o","u","t","u",".","b","e","/">>
        p == IF MatchAt(a, s, i) THEN i + Len(a)
             ELSE IF MatchAt(b, s, i) THEN i + Len(b)
             ELSE 0
    IN  IF p > 0 /\ IdRun(s, p) >= 6 THEN p ELSE 0

\* re.search(...): the leftmost match, its group taken greedily; None otherwise
extract_youtube_id(url) ==
    IF \E i \in 1..Len(url) : IdStartAt(url, i) > 0
    THEN LET i == CHOOSE k \in 1..Len(url) :
                      IdStartAt(url, k) > 0 /\ \A j \in 1..(k - 1) : IdStartAt(url, j) = 0
             p == IdStartAt(url, i)
         IN  SubSeq(url, p, p + IdRun(url, p) - 1)
    ELSE None

(***************************************************************************)
(* What the outside world can answer.                                      *)
(***************************************************************************)
\* the URLs a mirror or yt-dlp can return: opaque texts, each of its own kind
HLS_URL == <<"h">>
DASH_URL == <<"d">>
FMT_URL == <<"f">>
MP4_URL == <<"m">>
YTDLP_URL == <<"v">>

\* dict.get(key), None when the key is missing
Get(data, key) == IF key \in DOMAIN data THEN data[key] ELSE None

\* r.json() of a Piped mirror: `hls` and `dash` present (non-empty) or missing
PipedData ==
    { [hls |-> HLS_URL, dash |-> DASH_URL], [hls |-> HLS_URL], [dash |-> DASH_URL],
      [message |-> <<"e">>] }

MPEGURL_TYPE ==
    <<"a","p","p","l","i","c","a","t","i","o","n","/","x","-","m","p","e","g","U","R","L">>

MP4_TYPE == <<"v","i","d","e","o","/","m","p","4">>

\* r.json() of an Invidious mirror
InvidiousData ==
    { [hlsUrl |-> HLS_URL, dashUrl |-> DASH_URL],
      [dashUrl |-> DASH_URL,
       adaptiveFormats |-> << [type |-> MPEGURL_TYPE, url |-> FMT_URL] >>],
      [adaptiveFormats |-> << [type |-> MP4_TYPE, url |-> MP4_URL],
                              [type |-> MPEGURL_TYPE, url |-> FMT_URL] >>],
      [adaptiveFormats |-> << [type |-> MP4_TYPE, url |-> MP4_URL] >>],
      [error |-> <<"e">>] }

\* a request that raised: connection error, timeout after HTTP_TIMEOUT, HTTP
\* status >= 400 (raise_for_status), or a body that is no JSON object
Raised == [raised |-> TRUE]

Answer(data) == [raised |-> FALSE, data |-> data]

\* piped_pick with the two tests in the other order
piped_pick_DashFirst(data) ==
    LET hls == Get(data, "hls")
        dash == Get(data, "dash")
    IN  IF dash # None THEN dash
        ELSE IF hls # None THEN hls
        ELSE None

\* lines 115-122: the URL the Piped loop body returns for `data`, None if none
piped_pick(data) ==
    LET hls == Get(data, "hls")
        dash == Get(data, "dash")
    IN  IF hls # None THEN hls
        ELSE IF dash # None THEN dash
        ELSE None

\* lines 155-162: the first adaptive format that is HLS and has a URL
RECURSIVE adaptive_pick(_)
adaptive_pick(adaptive) ==
    IF adaptive = <<>> THEN None
    ELSE LET fmt == Head(adaptive)
             mime == IF "type" \in DOMAIN fmt THEN fmt["type"] ELSE <<>>
             url_fmt == Get(fmt, "url")
         IN  IF /\ Contains(<<"a","p","p","l","i","c","a","t","i","o","n","/","x","-",
                              "m","p","e","g","u","r","l">>, Lower(mime))
                /\ url_fmt # None
             THEN url_fmt
             ELSE adaptive_pick(Tail(adaptive))

\* lines 145-162: the URL the Invidious loop body returns for `data`
invidious_pick(data) ==
    LET hls == Get(data, "hlsUrl")
        dash == Get(data, "dashUrl")
    IN  IF hls # None THEN hls
        ELSE IF dash # None THEN dash
        ELSE adaptive_pick(Get(data, "adaptiveFormats"))

\* what one pass of the try block of a layer yields for an answer
layer_pick(layer, answer) ==
    IF answer.raised THEN None
    ELSE IF layer = "piped" THEN piped_pick(answer.data)
    ELSE invidious_pick(answer.data)

LayerData(layer) == IF layer = "piped" THEN PipedData ELSE InvidiousData

\* stdout of `yt-dlp -g`
YtDlpStdout ==
    { <<>>, <<"\n">>, <<"v","\n">>, <<"W",":"," ","x","\n","v","\n">> }

\* lines 173-178: the URL taken from a finished yt-dlp process
ytdlp_pick(returncode, stdout) ==
    IF returncode = 0 /\ Strip(stdout) # <<>>
    THEN LET ls == SplitLines(Strip(stdout)) IN ls[Len(ls)]
    ELSE None

(***************************************************************************)
(* resolve_stream, the parts without calls to the outside                  *)
(***************************************************************************)
\* youtube_id without the test of line 197: any URL with an id
youtube_id_NoSiteTest(url) == extract_youtube_id(url)

\* line 197-199: the video id when the entry goes through the API layers
youtube_id(url) ==
    IF \/ Contains(<<"y","o","u","t","u","b","e",".","c","o","m">>, url)
       \/ Contains(<<"y","o","u","t","u",".","b","e">>, url)
    THEN extract_youtube_id(url)
    ELSE None

\* extinf with line 193 left out: tvg-id is the display name as it is
extinf_RawTvgId(line, stream_url) ==
    LET p == parse_line(line)
    IN  <<"#","E","X","T","I","N","F",":","-","1"," ","t","v","g","-","i","d","=","\"">>
        \o p[3]
        \o <<"\""," ","g","r","o","u","p","-","t","i","t","l","e","=","\"">>
        \o p[2] \o <<"\"",",">> \o p[3] \o <<"\n">> \o stream_url \o <<"\n">>

\* extinf without the line end between the two lines
extinf_OneLine(line, stream_url) ==
    LET p == parse_line(line)
        tvg_id == normalize_id(p[3])
    IN  <<"#","E","X","T","I","N","F",":","-","1"," ","t","v","g","-","i","d","=","\"">>
        \o tvg_id
        \o <<"\""," ","g","r","o","u","p","-","t","i","t","l","e","=","\"">>
        \o p[2] \o <<"\"",",">> \o p[3] \o stream_url \o <<"\n">>

\* line 213: the two lines returned for an entry
extinf(line, stream_url) ==
    LET p == parse_line(line)
        tvg_id == normalize_id(p[3])
    IN  <<"#","E","X","T","I","N","F",":","-","1"," ","t","v","g","-","i","d","=","\"">>
        \o tvg_id
        \o <<"\""," ","g","r","o","u","p","-","t","i","t","l","e","=","\"">>
        \o p[2] \o <<"\"",",">> \o p[3] \o <<"\n">> \o stream_url \o <<"\n">>

\* line 239
header ==
    <<"#","E","X","T","M","3","U"," ","u","r","l","-","t","v","g","=","\"">>
    \o Join(EPG_URLS, <<",">>) \o <<"\"","\n">>

\* random.shuffle: any order of the list
Shuffles(list) ==
    {p \in [1..Len(list) -> Range(list)] : Range(p) = Range(list)}

\* list.remove(x): without the first x
RemoveFirst(list, x) ==
    LET i == CHOOSE k \in 1..Len(list) :
                 list[k] = x /\ \A j \in 1..(k - 1) : list[j] # x
    IN  SubSeq(list, 1, i - 1) \o SubSeq(list, i + 1, Len(list))

(***************************************************************************)
(* State                                                                   *)
(***************************************************************************)
VARIABLES
    inputState,        \* links.txt on disk: "missing", "unreadable" or "ok"
    inputLines,        \* its lines, without their line ends
    outExists,         \* whether streams.m3u exists
    out,               \* the text of streams.m3u
    printed,           \* the messages printed so far (their order is not kept)
    phase,             \* where the main thread is
    exitStatus,        \* "none" while running, then "0" or "1"
    lines,             \* generate_m3u's list `lines`
    pc,                \* per future: where its task is
    vid,               \* per task: the video id of its URL, None without one
    layer,             \* per task: the API layer it is in ("none" outside)
    candidates,        \* per task: the list `candidates` of the layer call
    pos,               \* per task: index in candidates of the mirror in turn
    tries,             \* per task: failed requests to that mirror so far
    attempts,          \* per task: the mirrors requested by the layer call so far
    hinted,            \* per task: the hint as line 104 (135) read it in this call
    tried,             \* per task: <<strategy, URL or None>> of each finished strategy
    result,            \* per future: its result, the text resolve_stream returned
    completed,         \* the futures in the order as_completed yielded them
    _last_piped_ok,    \* the shared hints
    _last_invidious_ok,
    reliable,          \* the mirrors that answer every request with a usable URL
    call,              \* a function called on its own: <<name, argument>>
    returned           \* what that call returned, <<value>>; <<>> before it returns

mainVars == <<inputState, inputLines, outExists, out, printed, phase, exitStatus,
              lines, completed>>

taskVars == <<pc, vid, layer, candidates, pos, tries, attempts, hinted, tried, result>>

hintVars == <<_last_piped_ok, _last_invidious_ok>>

funVars == <<call, returned>>

vars == <<mainVars, taskVars, hintVars, reliable, funVars>>

Tasks == DOMAIN pc

(***************************************************************************)
(* The inputs of a run                                                     *)
(***************************************************************************)
LineAlphabet == {"u", "|", " "}

\* every line over LineAlphabet of length 1..MaxLen
SmallLines == UNION {[1..n -> LineAlphabet] : n \in 1..MaxLen}

\* a YouTube entry with a video id and all three fields
YT_LINE ==
    <<"y","o","u","t","u",".","b","e","/","a","b","c","d","e","f","|","T","v","|","A","1">>

\* an entry of another site, URL only
PLAIN_LINE == <<"x",".","t","v","/","s">>

\* a YouTube URL without a video id, the other fields empty
YT_NOID_LINE == <<"y","o","u","t","u","b","e",".","c","o","m","/","c","|"," ","|">>

BLANK_LINE == <<" ">>

\* an entry whose category holds a double quote
QUOTE_LINE == <<"x",".","t","v","/","s","|","N","\"","w","|","A","1">>

\* an entry whose category and display name hold commas
COMMA_LINE == <<"x",".","t","v","/","s","|","a",",","b","|","A",",","1">>

\* a URL of another site that holds a v= parameter
OTHER_ID_LINE == <<"x",".","t","v","/","?","v","=","a","b","c","d","e","f">>

CoreLines == {YT_LINE, PLAIN_LINE, BLANK_LINE}

InputFiles ==
    {<<>>}
    \cup {<<l>> : l \in SmallLines \cup {YT_NOID_LINE, QUOTE_LINE, COMMA_LINE,
                                          OTHER_ID_LINE}}
    \cup UNION {[1..n -> CoreLines] : n \in 1..MaxLines}

\* what streams.m3u holds when it is left from an earlier run
STALE_OUT == <<"#","o","l","d","\n">>

Mirrors == Range(PIPED_APIS) \cup Range(INVIDIOUS_APIS)

Init ==
    /\ inputState \in {"missing", "unreadable", "ok"}
    /\ inputLines \in InputFiles
    /\ inputState # "ok" => inputLines = <<>>
    /\ outExists \in BOOLEAN
    /\ Len(inputLines) > 1 => outExists
    /\ out = IF outExists THEN STALE_OUT ELSE <<>>
    /\ printed = {}
    /\ phase = "main"
    /\ exitStatus = "none"
    /\ lines = <<>>
    /\ pc = <<>>
    /\ vid = <<>>
    /\ layer = <<>>
    /\ candidates = <<>>
    /\ pos = <<>>
    /\ tries = <<>>
    /\ attempts = <<>>
    /\ hinted = <<>>
    /\ tried = <<>>
    /\ result = <<>>
    /\ completed = <<>>
    /\ _last_piped_ok = None
    /\ _last_invidious_ok = None
    /\ reliable \in {{}, {PIPED_APIS[1]}, {INVIDIOUS_APIS[1]}}
    /\ (\A i \in 1..Len(inputLines) : inputLines[i] # YT_LINE) => reliable = {}
    /\ call = <<>>
    /\ returned = <<>>

(***************************************************************************)
(* Main thread                                                             *)
(***************************************************************************)
Exit(status, message) ==
    /\ phase' = "exited"
    /\ exitStatus' = status
    /\ printed' = printed \cup {message}

\* lines 262-266
MainCheck ==
    /\ phase = "main"
    /\ IF inputState = "missing"
       THEN Exit("1", <<"ERROR", <<"No se encontro links.txt">>>>)
       ELSE phase' = "generate" /\ UNCHANGED <<exitStatus, printed>>
    /\ UNCHANGED <<inputState, inputLines, outExists, out, lines, completed>>
    /\ UNCHANGED <<taskVars, hintVars, reliable, funVars>>

\* the file system is not the program's: links.txt can go away after main's test
RemoveInput ==
    /\ phase = "generate"
    /\ inputState = "ok"
    /\ inputState' = "missing"
    /\ UNCHANGED <<inputLines, outExists, out, printed, phase, exitStatus, lines,
                   completed>>
    /\ UNCHANGED <<taskVars, hintVars, reliable, funVars>>

\* lines 218-220: generate_m3u returns, the script ends with status 0
GenerateCheck ==
    /\ phase = "generate"
    /\ IF inputState = "missing"
       THEN Exit("0", <<"ERROR", <<"No se encontro el archivo">>>>)
       ELSE phase' = "read" /\ UNCHANGED <<exitStatus, printed>>
    /\ UNCHANGED <<inputState, inputLines, outExists, out, lines, completed>>
    /\ UNCHANGED <<taskVars, hintVars, reliable, funVars>>

\* line 223: the stripped non-blank lines
NonBlank(raw) ==
    LET IsNonBlank(ln) == Strip(ln) # <<>>
        kept == SelectSeq(raw, IsNonBlank)
    IN  [i \in 1..Len(kept) |-> Strip(kept[i])]

\* ReadInput without lines 225-227: an input without entries goes on
ReadInput_NoEmptyTest ==
    /\ phase = "read"
    /\ IF inputState # "ok"
       THEN Exit("1", <<"Traceback", <<"open">>>>) /\ UNCHANGED lines
       ELSE /\ lines' = NonBlank(inputLines)
            /\ phase' = "header"
            /\ UNCHANGED <<exitStatus, printed>>
    /\ UNCHANGED <<inputState, inputLines, outExists, out, completed>>
    /\ UNCHANGED <<taskVars, hintVars, reliable, funVars>>

\* lines 222-227: open() raises on a file that cannot be read (uncaught,
\* status 1); an input without entries ends the run with status 0
ReadInput ==
    /\ phase = "read"
    /\ IF inputState # "ok"
       THEN Exit("1", <<"Traceback", <<"open">>>>) /\ UNCHANGED lines
       ELSE /\ lines' = NonBlank(inputLines)
            /\ IF lines' = <<>>
               THEN Exit("0", <<"ERROR", <<"El archivo links.txt esta vacio">>>>)
               ELSE phase' = "header" /\ UNCHANGED <<exitStatus, printed>>
    /\ UNCHANGED <<inputState, inputLines, outExists, out, completed>>
    /\ UNCHANGED <<taskVars, hintVars, reliable, funVars>>

\* WriteHeader with the file opened to append
WriteHeader_Append ==
    /\ phase = "header"
    /\ printed' = printed \cup {<<"CONFIG", FALLBACK_URL>>}
    /\ outExists' = TRUE
    /\ out' = out \o header
    /\ phase' = "submit"
    /\ UNCHANGED <<inputState, inputLines, exitStatus, lines, completed>>
    /\ UNCHANGED <<taskVars, hintVars, reliable, funVars>>

\* lines 230-239: open(output_path, "w") empties the file, then the header
WriteHeader ==
    /\ phase = "header"
    /\ printed' = printed \cup (IF outExists THEN {<<"INFO", <<"Sera sobrescrito">>>>} ELSE {})
                          \cup {<<"CONFIG", FALLBACK_URL>>}
    /\ outExists' = TRUE
    /\ out' = header
    /\ phase' = "submit"
    /\ UNCHANGED <<inputState, inputLines, exitStatus, lines, completed>>
    /\ UNCHANGED <<taskVars, hintVars, reliable, funVars>>

\* line 242: one future per line
Submit ==
    /\ phase = "submit"
    /\ pc' = [t \in 1..Len(lines) |-> "queued"]
    /\ vid' = [t \in 1..Len(lines) |-> None]
    /\ layer' = [t \in 1..Len(lines) |-> "none"]
    /\ candidates' = [t \in 1..Len(lines) |-> <<>>]
    /\ pos' = [t \in 1..Len(lines) |-> 0]
    /\ tries' = [t \in 1..Len(lines) |-> 0]
    /\ attempts' = [t \in 1..Len(lines) |-> <<>>]
    /\ hinted' = [t \in 1..Len(lines) |-> None]
    /\ tried' = [t \in 1..Len(lines) |-> <<>>]
    /\ result' = [t \in 1..Len(lines) |-> None]
    /\ phase' = "collect"
    /\ UNCHANGED <<inputState, inputLines, outExists, out, printed, exitStatus, lines,
                   completed>>
    /\ UNCHANGED <<hintVars, reliable, funVars>>

\* Collect that writes the futures in the order of submission, whichever
\* future as_completed yielded
Collect_InputOrder(t) ==
    /\ phase = "collect"
    /\ pc[t] = "done"
    /\ LET next == result[Len(completed) + 1]
       IN  out' = IF next # None THEN out \o next ELSE out
    /\ completed' = Append(completed, t)
    /\ pc' = [pc EXCEPT ![t] = "written"]
    /\ UNCHANGED <<phase, exitStatus, printed>>
    /\ UNCHANGED <<inputState, inputLines, outExists, lines>>
    /\ UNCHANGED <<vid, layer, candidates, pos, tries, attempts, hinted, tried, result>>
    /\ UNCHANGED <<hintVars, reliable, funVars>>

\* lines 243-247: as_completed yields any finished future not yet yielded; a
\* future whose task raised re-raises in fut.result()
Collect(t) ==
    /\ phase = "collect"
    /\ pc[t] \in {"done", "raised"}
    /\ IF pc[t] = "done"
       THEN /\ out' = IF result[t] # None THEN out \o result[t] ELSE out
            /\ completed' = Append(completed, t)
            /\ pc' = [pc EXCEPT ![t] = "written"]
            /\ UNCHANGED <<phase, exitStatus, printed>>
       ELSE /\ Exit("1", <<"Traceback", <<"fut.result">>>>)
            /\ UNCHANGED <<out, completed, pc>>
    /\ UNCHANGED <<inputState, inputLines, outExists, lines>>
    /\ UNCHANGED <<vid, layer, candidates, pos, tries, attempts, hinted, tried, result>>
    /\ UNCHANGED <<hintVars, reliable, funVars>>

\* lines 247-250 and the end of the script
Finish ==
    /\ phase = "collect"
    /\ \A t \in Tasks : pc[t] = "written"
    /\ Exit("0", <<"OK", <<"Archivo M3U generado">>>>)
    /\ UNCHANGED <<inputState, inputLines, outExists, out, lines, completed>>
    /\ UNCHANGED <<taskVars, hintVars, reliable, funVars>>

(***************************************************************************)
(* Worker threads: resolve_stream(lines[t])                                *)
(***************************************************************************)
\* a worker of the pool is busy with t
Running(t) == pc[t] \notin {"queued", "done", "raised", "written"}

Hint(l) == IF l = "piped" THEN _last_piped_ok ELSE _last_invidious_ok

SetHint(l, api) ==
    IF l = "piped"
    THEN _last_piped_ok' = api /\ UNCHANGED _last_invidious_ok
    ELSE _last_invidious_ok' = api /\ UNCHANGED _last_piped_ok

Apis(l) == IF l = "piped" THEN PIPED_APIS ELSE INVIDIOUS_APIS

\* lines 102-103 and 133-134: the call starts with a shuffled copy of the list
EnterLayer(t, l) ==
    /\ layer' = [layer EXCEPT ![t] = l]
    /\ \E shuffled \in Shuffles(Apis(l)) :
           candidates' = [candidates EXCEPT ![t] = shuffled]
    /\ pos' = [pos EXCEPT ![t] = 1]
    /\ tries' = [tries EXCEPT ![t] = 0]
    /\ attempts' = [attempts EXCEPT ![t] = <<>>]
    /\ hinted' = [hinted EXCEPT ![t] = None]
    /\ pc' = [pc EXCEPT ![t] = "hint1"]

\* a layer call returns: its locals are gone
LeaveLayer(t) ==
    /\ layer' = [layer EXCEPT ![t] = "none"]
    /\ candidates' = [candidates EXCEPT ![t] = <<>>]
    /\ pos' = [pos EXCEPT ![t] = 0]
    /\ tries' = [tries EXCEPT ![t] = 0]
    /\ attempts' = [attempts EXCEPT ![t] = <<>>]
    /\ hinted' = [hinted EXCEPT ![t] = None]

\* Return that raises when no strategy gave a URL
Return_Raises(t, stream_url, log) ==
    /\ LeaveLayer(t)
    /\ tried' = [tried EXCEPT ![t] = log]
    /\ UNCHANGED printed
    /\ IF stream_url = None
       THEN pc' = [pc EXCEPT ![t] = "raised"] /\ UNCHANGED result
       ELSE /\ pc' = [pc EXCEPT ![t] = "done"]
            /\ result' = [result EXCEPT ![t] = extinf(lines[t], stream_url)]

\* Return without lines 209-211: no fallback is put in
Return_NoFallback(t, stream_url, log) ==
    /\ pc' = [pc EXCEPT ![t] = "done"]
    /\ LeaveLayer(t)
    /\ result' = [result EXCEPT ![t] = extinf(lines[t], stream_url)]
    /\ tried' = [tried EXCEPT ![t] = log]
    /\ UNCHANGED printed

\* lines 209-213: the fallback when no strategy gave a URL, then the return
Return(t, stream_url, log) ==
    /\ pc' = [pc EXCEPT ![t] = "done"]
    /\ LeaveLayer(t)
    /\ IF stream_url = None
       THEN /\ result' = [result EXCEPT ![t] = extinf(lines[t], FALLBACK_URL)]
            /\ tried' = [tried EXCEPT ![t] = Append(log, <<"fallback", FALLBACK_URL>>)]
            /\ printed' = printed \cup {<<"WARNING", parse_line(lines[t])[1]>>}
       ELSE /\ result' = [result EXCEPT ![t] = extinf(lines[t], stream_url)]
            /\ tried' = [tried EXCEPT ![t] = log]
            /\ UNCHANGED printed

\* StartTask of a pool that starts a thread for every future
StartTask_NoLimit(t) ==
    /\ phase = "collect"
    /\ pc[t] = "queued"
    /\ \A j \in Tasks : j < t => pc[j] # "queued"
    /\ vid' = [vid EXCEPT ![t] = youtube_id(parse_line(lines[t])[1])]
    /\ IF vid'[t] # None
       THEN EnterLayer(t, "piped")
       ELSE /\ pc' = [pc EXCEPT ![t] = "ytcheck"]
            /\ UNCHANGED <<layer, candidates, pos, tries, attempts, hinted>>
    /\ UNCHANGED <<tried, result>>
    /\ UNCHANGED <<mainVars, hintVars, reliable, funVars>>

\* a worker takes the next future of the queue (lines 241-242); lines 192-200
StartTask(t) ==
    /\ phase = "collect"
    /\ pc[t] = "queued"
    /\ \A j \in Tasks : j < t => pc[j] # "queued"
    /\ Cardinality({j \in Tasks : Running(j)}) < MAX_THREADS
    /\ vid' = [vid EXCEPT ![t] = youtube_id(parse_line(lines[t])[1])]
    /\ IF vid'[t] # None
       THEN EnterLayer(t, "piped")
       ELSE /\ pc' = [pc EXCEPT ![t] = "ytcheck"]
            /\ UNCHANGED <<layer, candidates, pos, tries, attempts, hinted>>
    /\ UNCHANGED <<tried, result>>
    /\ UNCHANGED <<mainVars, hintVars, reliable, funVars>>

\* lines 104 and 135, left operand: is the hint set
HintSet(t) ==
    /\ pc[t] = "hint1"
    /\ pc' = [pc EXCEPT ![t] = IF Hint(layer[t]) # None THEN "hint2" ELSE "request"]
    /\ hinted' = [hinted EXCEPT ![t] = Hint(layer[t])]
    /\ UNCHANGED <<vid, layer, candidates, pos, tries, attempts, tried, result>>
    /\ UNCHANGED <<mainVars, hintVars, reliable, funVars>>

\* lines 104 and 135, right operand: the hint is read again for `in candidates`
HintIn(t) ==
    /\ pc[t] = "hint2"
    /\ pc' = [pc EXCEPT ![t] = IF Hint(layer[t]) \in Range(candidates[t])
                               THEN "remove" ELSE "request"]
    /\ UNCHANGED <<vid, layer, candidates, pos, tries, attempts, hinted, tried, result>>
    /\ UNCHANGED <<mainVars, hintVars, reliable, funVars>>

\* lines 106 and 136: the hint is read again; list.remove raises ValueError
\* when the value is not in the list, which nothing catches
HintRemove(t) ==
    /\ pc[t] = "remove"
    /\ IF Hint(layer[t]) \in Range(candidates[t])
       THEN /\ candidates' = [candidates EXCEPT
                                 ![t] = RemoveFirst(candidates[t], Hint(layer[t]))]
            /\ pc' = [pc EXCEPT ![t] = "insert"]
       ELSE /\ pc' = [pc EXCEPT ![t] = "raised"]
            /\ UNCHANGED candidates
    /\ UNCHANGED <<vid, layer, pos, tries, attempts, hinted, tried, result>>
    /\ UNCHANGED <<mainVars, hintVars, reliable, funVars>>

\* lines 107 and 137: the hint is read once more
HintInsert(t) ==
    /\ pc[t] = "insert"
    /\ candidates' = [candidates EXCEPT ![t] = <<Hint(layer[t])>> \o candidates[t]]
    /\ pc' = [pc EXCEPT ![t] = "request"]
    /\ UNCHANGED <<vid, layer, pos, tries, attempts, hinted, tried, result>>
    /\ UNCHANGED <<mainVars, hintVars, reliable, funVars>>

\* AfterLayer with lines 201-202 left out: no second layer
AfterLayer_SkipInvidious(t, l) ==
    /\ pc' = [pc EXCEPT ![t] = "ytcheck"]
    /\ LeaveLayer(t)

\* lines 201-205: after a layer that gave no URL comes Invidious (after Piped)
\* or the yt-dlp check (after Invidious)
AfterLayer(t, l) ==
    IF l = "piped"
    THEN EnterLayer(t, "invidious")
    ELSE /\ pc' = [pc EXCEPT ![t] = "ytcheck"]
         /\ LeaveLayer(t)

\* http_get_json (lines 87-94): what a request to mirror `api` can come back
\* with; requests.get has a timeout, so it always comes back
http_get_json(l, api) ==
    {Answer(d) : d \in {x \in LayerData(l) : layer_pick(l, Answer(x)) # None}}
    \cup (IF api \in reliable
          THEN {}
          ELSE {Raised} \cup {Answer(d) : d \in LayerData(l)})

\* lines 109-126 and 139-165: one pass of the retry loop. A usable answer sets
\* the hint and ends resolve_stream; anything else is the next try, the next
\* mirror, or the end of the layer (Invidious after Piped, yt-dlp after that).
Request(t) ==
    /\ pc[t] = "request"
    /\ LET l == layer[t]
           api == candidates[t][pos[t]]
       IN  \E answer \in http_get_json(l, api) :
             LET url == layer_pick(l, answer)
                 log == Append(tried[t], <<l, url>>)
             IN  IF url # None
                 THEN /\ SetHint(l, api)
                      /\ Return(t, url, log)
                 ELSE /\ UNCHANGED <<hintVars, result, printed>>
                      /\ IF tries[t] + 1 < API_RETRIES
                         THEN /\ tries' = [tries EXCEPT ![t] = tries[t] + 1]
                              /\ attempts' = [attempts EXCEPT
                                                 ![t] = Append(attempts[t], api)]
                              /\ UNCHANGED <<pc, layer, candidates, pos, hinted, tried>>
                         ELSE IF pos[t] < Len(candidates[t])
                         THEN /\ pos' = [pos EXCEPT ![t] = pos[t] + 1]
                              /\ tries' = [tries EXCEPT ![t] = 0]
                              /\ attempts' = [attempts EXCEPT
                                                 ![t] = Append(attempts[t], api)]
                              /\ UNCHANGED <<pc, layer, candidates, hinted, tried>>
                         ELSE /\ tried' = [tried EXCEPT ![t] = log]
                              /\ AfterLayer(t, l)
    /\ UNCHANGED <<inputState, inputLines, outExists, out, phase, exitStatus, lines,
                   completed, reliable, funVars, vid>>

\* check_yt_dlp_installed (lines 181-186): `yt-dlp --version` ends with status
\* 0, ends otherwise or cannot be started, or does not end: subprocess.run has
\* no timeout here, so the call then never returns
YtCheck(t) ==
    /\ pc[t] = "ytcheck"
    /\ \E outcome \in {"installed", "absent", "hangs"} :
         CASE outcome = "installed" ->
                /\ pc' = [pc EXCEPT ![t] = "ytdlp"]
                /\ UNCHANGED <<layer, candidates, pos, tries, attempts, hinted, tried,
                               result, printed>>
           [] outcome = "absent" ->
                Return(t, None, Append(tried[t], <<"ytdlp", None>>))
           [] outcome = "hangs" ->
                /\ pc' = [pc EXCEPT ![t] = "hung"]
                /\ UNCHANGED <<layer, candidates, pos, tries, attempts, hinted, tried,
                               result, printed>>
    /\ UNCHANGED <<inputState, inputLines, outExists, out, phase, exitStatus, lines,
                   completed>>
    /\ UNCHANGED <<vid, hintVars, reliable, funVars>>

\* get_stream_with_ytdlp (lines 169-178): the process ends within 20 s with a
\* status and an output, or subprocess.run raises (timeout, OSError)
YtDlp(t) ==
    /\ pc[t] = "ytdlp"
    /\ \E url \in {None} \cup {ytdlp_pick(rc, so) : rc \in {0, 1}, so \in YtDlpStdout} :
         Return(t, url, Append(tried[t], <<"ytdlp", url>>))
    /\ UNCHANGED <<inputState, inputLines, outExists, out, phase, exitStatus, lines,
                   completed>>
    /\ UNCHANGED <<vid, hintVars, reliable, funVars>>

Next ==
    \/ MainCheck
    \/ RemoveInput
    \/ GenerateCheck
    \/ ReadInput
    \/ WriteHeader
    \/ Submit
    \/ \E t \in Tasks : Collect(t)
    \/ Finish
    \/ \E t \in Tasks : StartTask(t)
    \/ \E t \in Tasks : HintSet(t)
    \/ \E t \in Tasks : HintIn(t)
    \/ \E t \in Tasks : HintRemove(t)
    \/ \E t \in Tasks : HintInsert(t)
    \/ \E t \in Tasks : Request(t)
    \/ \E t \in Tasks : YtCheck(t)
    \/ \E t \in Tasks : YtDlp(t)

Spec == Init /\ [][Next]_vars

(***************************************************************************)
(* The functions without effects, each called on its own over every        *)
(* argument of a bounded set: normalize_id, and the try block of the two   *)
(* layers on an answer of a mirror.                                        *)
(***************************************************************************)
NormAlphabet == {"a", "Z", "9", "-", " ", "\""}

\* every text over NormAlphabet of length 0..MaxLen
NormTexts == UNION {[1..n -> NormAlphabet] : n \in 0..MaxLen}

\* a value of a JSON answer: the key missing, null/empty, or a URL
Presence == {"missing", "empty", "url"}

\* the JSON objects a Piped mirror can answer with, over title, hls and dash
PipedAnswers ==
    { [k \in {"title"} \cup (IF h = "missing" THEN {} ELSE {"hls"})
                       \cup (IF d = "missing" THEN {} ELSE {"dash"}) |->
          CASE k = "title" -> <<"t">>
            [] k = "hls" -> IF h = "url" THEN HLS_URL ELSE <<>>
            [] k = "dash" -> IF d = "url" THEN DASH_URL ELSE <<>>]
      : h \in Presence, d \in Presence }

\* the entries of adaptiveFormats: HLS with a URL, MP4, without url, without
\* type, with an empty url
Formats ==
    { [type |-> MPEGURL_TYPE, url |-> FMT_URL], [type |-> MP4_TYPE, url |-> MP4_URL],
      [type |-> MPEGURL_TYPE], [url |-> MP4_URL], [type |-> MPEGURL_TYPE, url |-> <<>>] }

FormatLists == UNION {[1..n -> Formats] : n \in 0..MaxFormats}

\* the JSON objects an Invidious mirror can answer with
InvidiousAnswers ==
    { [k \in {"title"} \cup (IF h = "missing" THEN {} ELSE {"hlsUrl"})
                       \cup (IF d = "missing" THEN {} ELSE {"dashUrl"})
                       \cup (IF a THEN {"adaptiveFormats"} ELSE {}) |->
          CASE k = "title" -> <<"t">>
            [] k = "hlsUrl" -> IF h = "url" THEN HLS_URL ELSE <<>>
            [] k = "dashUrl" -> IF d = "url" THEN DASH_URL ELSE <<>>
            [] k = "adaptiveFormats" -> fl]
      : h \in Presence, d \in Presence, a \in BOOLEAN, fl \in FormatLists }

Calls ==
    {<<"normalize_id", text>> : text \in NormTexts}
    \cup {<<"piped", data>> : data \in PipedAnswers}
    \cup {<<"invidious", data>> : data \in InvidiousAnswers}

\* the module is loaded, nothing runs
FunInit ==
    /\ call \in Calls
    /\ returned = <<>>
    /\ inputState = "missing"
    /\ inputLines = <<>>
    /\ outExists = FALSE
    /\ out = <<>>
    /\ printed = {}
    /\ phase = "main"
    /\ exitStatus = "none"
    /\ lines = <<>>
    /\ pc = <<>>
    /\ vid = <<>>
    /\ layer = <<>>
    /\ candidates = <<>>
    /\ pos = <<>>
    /\ tries = <<>>
    /\ attempts = <<>>
    /\ hinted = <<>>
    /\ tried = <<>>
    /\ result = <<>>
    /\ completed = <<>>
    /\ _last_piped_ok = None
    /\ _last_invidious_ok = None
    /\ reliable = {}

\* normalize_id(text)
CallNormalizeId ==
    /\ call[1] = "normalize_id"
    /\ returned = <<>>
    /\ returned' = <<normalize_id(call[2])>>
    /\ UNCHANGED <<mainVars, taskVars, hintVars, reliable, call>>

\* lines 113-122 (143-162) on an answer: what the layer returns, None when it
\* goes on to the next try
CallLayerPick(l) ==
    /\ call[1] = l
    /\ returned = <<>>
    /\ returned' = <<layer_pick(l, Answer(call[2]))>>
    /\ UNCHANGED <<mainVars, taskVars, hintVars, reliable, call>>

FunNext ==
    \/ CallNormalizeId
    \/ CallLayerPick("piped")
    \/ CallLayerPick("invidious")

FunSpec == FunInit /\ [][FunNext]_vars

(***************************************************************************)
(* Reading the state                                                       *)
(***************************************************************************)
\* the lines of a text, as a reader of the file sees them
FileLines(text) ==
    LET parts == Split(text, "\n")
    IN  IF parts[Len(parts)] = <<>> THEN SubSeq(parts, 1, Len(parts) - 1) ELSE parts

StartsWith(s, prefix) == MatchAt(prefix, s, 1)

EndsWith(s, suffix) == MatchAt(suffix, s, Len(s) - Len(suffix) + 1)

EXTM3U == <<"#","E","X","T","M","3","U">>

EXTINF == <<"#","E","X","T","I","N","F",":">>

\* the entries of the playlist in file order, each <<metadata line, media URL
\* line>>: the lines after the first, two by two (a missing line reads as empty)
Entries ==
    LET ls == FileLines(out)
        LineAt(i) == IF i \in 1..Len(ls) THEN ls[i] ELSE <<>>
    IN  [k \in 1..(Len(ls) \div 2) |-> <<LineAt(2 * k), LineAt(2 * k + 1)>>]

Finished(t) == pc[t] \in {"done", "written"}

\* the URLs the strategies of task t returned
ReturnedUrls(t) ==
    {tried[t][i][2] : i \in {j \in 1..Len(tried[t]) : tried[t][j][1] # "fallback"}}
    \ {None}

\* the lines of the input files, as generate_m3u keeps them
EntryLines == UNION {Range(NonBlank(file)) : file \in InputFiles}

\* the run went through to its normal end
EndedNormally == phase = "exited" /\ completed # <<>> /\ exitStatus = "0"

(***************************************************************************)
(* C1: every entry written to the playlist has a media URL line that is    *)
(* not empty: it is a URL one of the strategies returned for that entry,   *)
(* or FALLBACK_URL.                                                        *)
(***************************************************************************)
MediaUrlNeverEmpty ==
    LET e == Entries
    IN  /\ Len(e) >= Len(completed)
        /\ \A k \in 1..Len(completed) :
               /\ e[k][2] # <<>>
               /\ e[k][2] \in ReturnedUrls(completed[k]) \cup {FALLBACK_URL}

\* a playlist that holds a fallback entry and an entry resolved by a mirror
C1Witness ==
    /\ Len(completed) >= 2
    /\ LET e == Entries
       IN  /\ \E k \in 1..Len(completed) : e[k][2] = FALLBACK_URL
           /\ \E k \in 1..Len(completed) : e[k][2] = HLS_URL

(***************************************************************************)
(* C2: an entry for which every strategy failed (no mirror request gave a  *)
(* URL; yt-dlp absent, failed or timed out) is still emitted, its media    *)
(* URL is exactly FALLBACK_URL, and the run is not aborted: it ends with   *)
(* status 0 only, and with every entry written.                            *)
(***************************************************************************)
AllStrategiesFailed(t) == Finished(t) /\ ReturnedUrls(t) = {}

FallbackWhenAllFail ==
    /\ \A t \in Tasks :
           AllStrategiesFailed(t) =>
               LET ls == FileLines(result[t])
               IN  Len(ls) = 2 /\ ls[2] = FALLBACK_URL
    /\ LET e == Entries
       IN  \A k \in 1..Len(completed) :
               AllStrategiesFailed(completed[k]) =>
                   k <= Len(e) /\ e[k][2] = FALLBACK_URL
    /\ \A t \in Tasks : pc[t] # "raised"
    /\ (phase = "exited" /\ Tasks # {}) =>
           /\ exitStatus = "0"
           /\ \A t \in Tasks : pc[t] = "written" /\ t \in Range(completed)

\* a finished run whose first written entry is a fallback entry and which went
\* on to write an entry that was resolved
C2Witness ==
    /\ EndedNormally
    /\ Len(completed) >= 2
    /\ AllStrategiesFailed(completed[1])
    /\ ~AllStrategiesFailed(completed[2])
    /\ Entries[1][2] = FALLBACK_URL
    /\ Entries[2][2] # FALLBACK_URL

(***************************************************************************)
(* C3: within a task the strategies come in the order Piped, Invidious,    *)
(* yt-dlp, fallback (the API layers only for entries that have them, C18); *)
(* a strategy is attempted exactly when every earlier one gave no URL, and *)
(* no failure stops the task from going on to the next one.                *)
(***************************************************************************)
Rank(strategy) ==
    CASE strategy = "piped" -> 1
      [] strategy = "invidious" -> 2
      [] strategy = "ytdlp" -> 3
      [] strategy = "fallback" -> 4

\* the first strategy of an entry
FirstRank(t) == IF vid[t] # None THEN 1 ELSE 3

\* the strategy the task is in, by its position in the code
RankAt(t) ==
    IF pc[t] \in {"hint1", "hint2", "remove", "insert", "request"}
    THEN Rank(layer[t])
    ELSE 3

StrategiesInOrder ==
    \A t \in Tasks :
        LET log == tried[t]
            n == Len(log)
        IN  /\ pc[t] # "raised"
            /\ \A i \in 1..n : Rank(log[i][1]) = FirstRank(t) + i - 1
            /\ \A i \in 1..(n - 1) : log[i][2] = None
            /\ Finished(t) => n >= 1 /\ log[n][2] # None
            /\ Running(t) =>
                   /\ \A i \in 1..n : log[i][2] = None
                   /\ RankAt(t) = FirstRank(t) + n

\* a task that went through all four strategies
C3Witness ==
    \E t \in Tasks :
        /\ Finished(t)
        /\ Len(tried[t]) = 4
        /\ tried[t][4] = <<"fallback", FALLBACK_URL>>

(***************************************************************************)
(* C4: the hints never change whether an entry is resolved.  With a mirror *)
(* that answers every request with a usable URL, an entry that goes        *)
(* through the API layers is resolved whenever the hints are unset (every  *)
(* shuffled list holds that mirror); so the claim says no such entry ends  *)
(* with the fallback.                                                      *)
(***************************************************************************)
HintsNeverChangeOutcome ==
    \A t \in Tasks :
        (Finished(t) /\ vid[t] # None /\ reliable # {}) => ReturnedUrls(t) # {}

(***************************************************************************)
(* C5: the playlist is one header line, the first line, starting with      *)
(* #EXTM3U and written before any entry, then two lines per entry (an      *)
(* #EXTINF line and a media URL line); when a run with N >= 1 non-blank    *)
(* input lines ends, the file has 1 + 2N lines, duplicates included.       *)
(***************************************************************************)
\* the raw lines of links.txt that are not blank
NonBlankCount ==
    Cardinality({i \in 1..Len(inputLines) :
                    \E j \in 1..Len(inputLines[i]) : ~IsSpace(inputLines[i][j])})

PlaylistShape ==
    LET ls == FileLines(out)
    IN  /\ (phase \in {"submit", "collect"} \/ EndedNormally) =>
               /\ Len(ls) = 1 + 2 * Len(completed)
               /\ StartsWith(ls[1], EXTM3U)
               /\ \A i \in 2..Len(ls) : ~StartsWith(ls[i], EXTM3U)
               /\ \A k \in 1..Len(completed) :
                      /\ StartsWith(ls[2 * k], EXTINF)
                      /\ ~StartsWith(ls[2 * k + 1], <<"#">>)
        /\ (phase = "exited" /\ inputState = "ok" /\ NonBlankCount >= 1) =>
               /\ Len(completed) = NonBlankCount
               /\ Len(ls) = 1 + 2 * NonBlankCount

\* a finished run over three raw lines: a blank one and the same entry twice
C5Witness ==
    /\ EndedNormally
    /\ Len(inputLines) = 3
    /\ NonBlankCount = 2
    /\ lines[1] = lines[2]
    /\ Len(FileLines(out)) = 5

(***************************************************************************)
(* C6: whatever the order in which the tasks complete, the playlist holds  *)
(* the entries of the completed tasks, each once (at the end: of all       *)
(* tasks, none lost, none twice), and the metadata line of an entry is     *)
(* directly followed by the media URL line of the same entry.              *)
(***************************************************************************)
AnyCompletionOrder ==
    LET e == Entries
    IN  /\ \A i, j \in 1..Len(completed) : i # j => completed[i] # completed[j]
        /\ completed # <<>> => Len(e) = Len(completed)
        /\ \A k \in 1..Len(completed) :
               /\ k <= Len(e)
               /\ FileLines(result[completed[k]]) = <<e[k][1], e[k][2]>>
        /\ (phase = "exited" /\ Tasks # {}) => Range(completed) = Tasks

\* a finished run in which a later input line was written before an earlier
\* one that gave another entry
C6Witness ==
    /\ EndedNormally
    /\ \E i, j \in 1..Len(completed) :
           i < j /\ completed[i] > completed[j]
                 /\ result[completed[i]] # result[completed[j]]

(***************************************************************************)
(* C7: two runs with the same input lines and the same resolution outcome  *)
(* for every entry leave byte-identical files.  A run in which the tasks   *)
(* complete in input order leaves FileFor(<<1, ..., N>>); so the claim,    *)
(* made for whatever completion order, says that every run leaves that     *)
(* file.  What holds is that the file is fixed by the lines, the outcomes  *)
(* and the completion order together.                                      *)
(***************************************************************************)
\* the media URL task t ended with
FinalUrl(t) == tried[t][Len(tried[t])][2]

\* the file made of the header and the entries of the tasks of `order`
FileFor(order) ==
    header \o Concat([k \in 1..Len(order) |->
                         extinf(lines[order[k]], FinalUrl(order[k]))])

\* the original claim
OutputSameForAnyOrder ==
    EndedNormally => out = FileFor([k \in 1..Len(lines) |-> k])

\* the amended claim
OutputFixedByCompletionOrder ==
    (phase = "collect" \/ EndedNormally) => out = FileFor(completed)

\* a finished run whose tasks did not complete in input order, over a file
\* left by an earlier run
C7Witness ==
    /\ EndedNormally
    /\ completed # [k \in 1..Len(lines) |-> k]
    /\ \E m \in printed : m[1] = "INFO"
    /\ out # FileFor([k \in 1..Len(lines) |-> k])

(***************************************************************************)
(* C8: every call to the outside is bounded by a timeout and so returns:  *)
(* no task is ever inside a call that does not come back.  (No action      *)
(* leaves "hung": the future of such a task never completes, as_completed  *)
(* never yields it, and the run does not end.)                             *)
(***************************************************************************)
NoCallBlocksForever == \A t \in Tasks : pc[t] # "hung"

(***************************************************************************)
(* C9: which runs end how.  The original claim: a run ends with status 1   *)
(* and no playlist when links.txt is missing or unreadable, and with a     *)
(* playlist in every other case.                                           *)
(***************************************************************************)
PlaylistWritten == StartsWith(out, EXTM3U)

\* streams.m3u is as it was before the run
OutputUntouched == out \in {<<>>, STALE_OUT}

ErrorPrinted == \E m \in printed : m[1] \in {"ERROR", "Traceback"}

Bars(line) == {i \in 1..Len(line) : line[i] = "|"}

FieldCount(line) == Cardinality(Bars(line)) + 1

\* position of the n-th '|' of the line; 0 for n = 0, Len + 1 past the last
BarAt(line, n) ==
    IF n = 0 THEN 0
    ELSE IF n > Cardinality(Bars(line)) THEN Len(line) + 1
    ELSE CHOOSE i \in Bars(line) : Cardinality({j \in Bars(line) : j < i}) = n - 1

Trimmed(s) ==
    LET solid == {i \in 1..Len(s) : ~IsSpace(s[i])}
    IN  IF solid = {} THEN <<>>
        ELSE SubSeq(s, CHOOSE i \in solid : \A j \in solid : i <= j,
                       CHOOSE i \in solid : \A j \in solid : i >= j)

\* the k-th field of the line, k <= FieldCount(line)
Field(line, k) == Trimmed(SubSeq(line, BarAt(line, k - 1) + 1, BarAt(line, k) - 1))

ExpectedCategory(line) ==
    IF FieldCount(line) >= 2 /\ Field(line, 2) # <<>>
    THEN Field(line, 2)
    ELSE <<"G","e","n","e","r","a","l">>

ExpectedName(line) ==
    IF FieldCount(line) >= 3 /\ Field(line, 3) # <<>>
    THEN Field(line, 3)
    ELSE Field(line, 1)

DefaultsNeverReject ==
    /\ phase = "header" =>
           /\ Len(lines) = NonBlankCount
           /\ \A t \in 1..Len(lines) :
                  parse_line(lines[t]) =
                      <<Field(lines[t], 1), ExpectedCategory(lines[t]),
                        ExpectedName(lines[t])>>
    /\ phase = "exited" /\ lines # <<>> =>
           LET e == Entries
           IN  /\ Len(e) = Len(lines)
               /\ \A t \in 1..Len(lines) :
                      /\ Cardinality({k \in 1..Len(completed) : completed[k] = t}) = 1
                      /\ \A k \in 1..Len(completed) :
                             (completed[k] = t /\ k <= Len(e)) =>
                                 EndsWith(e[k][1],
                                          <<"g","r","o","u","p","-","t","i","t","l","e",
                                            "=","\"">>
                                          \o ExpectedCategory(lines[t]) \o <<"\"",",">>
                                          \o ExpectedName(lines[t]))

\* a finished run over a line whose second and third fields are there but empty
C10Witness ==
    /\ EndedNormally
    /\ \E t \in 1..Len(lines) :
           /\ FieldCount(lines[t]) = 3
           /\ Field(lines[t], 1) # <<>>
           /\ Field(lines[t], 2) = <<>>
           /\ Field(lines[t], 3) = <<>>
           /\ parse_line(lines[t])[3] = Field(lines[t], 1)

(***************************************************************************)
(* C11: round trip.  A reader of the playlist takes the category from the  *)
(* group-title attribute (the text between group-title=" and the next      *)
(* double quote), the display name from the text after the comma that ends *)
(* the attribute list (the first comma outside double quotes), and the     *)
(* media URL from the next line.  For every written entry whose resolution *)
(* did not end in the fallback, what it reads is the category and the      *)
(* display name parse_line gave and the URL the strategy returned.         *)
(***************************************************************************)
\* position of the first match of sub in s at or after position from, 0 if none
FirstMatch(sub, s, from) ==
    LET hits == {i \in from..Len(s) : MatchAt(sub, s, i)}
    IN  IF hits = {} THEN 0 ELSE CHOOSE i \in hits : \A j \in hits : i <= j

\* the value of attribute `key` of a metadata line
AttrValue(meta, key) ==
    LET open == key \o <<"=", "\"">>
        a == FirstMatch(open, meta, 1)
        b == IF a = 0 THEN 0 ELSE FirstMatch(<<"\"">>, meta, a + Len(open))
    IN  IF b = 0 THEN <<>> ELSE SubSeq(meta, a + Len(open), b - 1)

\* the text after the first comma of the line that is outside double quotes
NameAfterComma(meta) ==
    LET quotes == {i \in 1..Len(meta) : meta[i] = "\""}
        commas == {i \in 1..Len(meta) :
                      /\ meta[i] = ","
                      /\ Cardinality({q \in quotes : q < i}) % 2 = 0}
    IN  IF commas = {} THEN <<>>
        ELSE SubSeq(meta, (CHOOSE i \in commas : \A j \in commas : i <= j) + 1,
                    Len(meta))

\* what a reader recovers from the k-th entry of the file
Reparsed(k) ==
    LET e == Entries
    IN  IF k \in 1..Len(e)
        THEN <<AttrValue(e[k][1], <<"g","r","o","u","p","-","t","i","t","l","e">>),
               NameAfterComma(e[k][1]), e[k][2]>>
        ELSE <<>>

\* the entry of task t did not end in the fallback
ResolvedByStrategy(t) ==
    /\ tried[t] # <<>>
    /\ tried[t][Len(tried[t])][1] # "fallback"

RoundTrip ==
    \A k \in 1..Len(completed) :
        LET t == completed[k]
            p == parse_line(lines[t])
        IN  ResolvedByStrategy(t) =>
                Reparsed(k) = <<p[2], p[3], tried[t][Len(tried[t])][2]>>

(***************************************************************************)
(* C12: the program loads no guide, so no title matches a guide channel.   *)
(* The original claim: every entry is emitted with its title unchanged as  *)
(* display name and with an empty tvg-id.  What holds: the display name is *)
(* the title unchanged, and tvg-id is the title in lower case without the  *)
(* characters outside [a-z0-9], empty only for a title without any ASCII   *)
(* letter or digit.                                                        *)
(***************************************************************************)
TVG_ID == <<"t","v","g","-","i","d">>

\* the letters and digits of a title, the letters in lower case
RECURSIVE LettersAndDigits(_)
LettersAndDigits(title) ==
    IF title = <<>> THEN <<>>
    ELSE LET c == Head(title)
             kept == IF c \in Range(LowerLetters) \cup Range(Digits) THEN <<c>>
                     ELSE IF c \in Range(UpperLetters) THEN <<LowerChar(c)>>
                     ELSE <<>>
         IN  kept \o LettersAndDigits(Tail(title))

TitleOf == [line \in EntryLines |-> parse_line(line)[3]]

\* how the metadata line of each entry line starts when tvg-id holds the
\* letters and digits of its title
TvgIdOfTitle ==
    [line \in EntryLines |->
        EXTINF \o <<"-","1"," ">> \o TVG_ID \o <<"=","\"">>
        \o LettersAndDigits(TitleOf[line]) \o <<"\""," ","g","r","o","u","p">>]

\* only a title without ASCII letter or digit gives an empty tvg-id
EmptyOnlyWithoutAlnum ==
    \A line \in EntryLines :
        LettersAndDigits(TitleOf[line]) = <<>> <=>
            \A i \in 1..Len(TitleOf[line]) :
                TitleOf[line][i] \notin Range(LowerLetters) \cup Range(UpperLetters)
                                        \cup Range(Digits)

NormalizeIdIdempotent ==
    (call # <<>> /\ call[1] = "normalize_id" /\ returned # <<>>) =>
        LET r == returned[1]
        IN  /\ normalize_id(r) = r
            /\ \A i \in 1..Len(r) : r[i] \in Range(LowerLetters) \cup Range(Digits)
            /\ Len(r) <= Len(call[2])

\* a call on a text with an upper-case letter and two characters that are
\* dropped, returned
C13Witness ==
    /\ call # <<>>
    /\ call[1] = "normalize_id"
    /\ returned # <<>>
    /\ \E i \in 1..Len(call[2]) : call[2][i] = "Z"
    /\ Len(returned[1]) = 1
    /\ Len(call[2]) = 3

(***************************************************************************)
(* C14: the pool is bounded and of fixed size.  In every state at most     *)
(* MAX_THREADS tasks are executing, however many lines there are; there is *)
(* one task per non-blank line of links.txt, for that line; and a task is  *)
(* resolved once: it leaves the queue once, and once it has returned, it   *)
(* stays returned with the same result.                                    *)
(***************************************************************************)
PoolBounded ==
    /\ Cardinality({t \in Tasks : Running(t)}) <= MAX_THREADS
    /\ phase = "collect" =>
           /\ Tasks = 1..NonBlankCount
           /\ Len(lines) = NonBlankCount
    /\ \A t \in Tasks :
           /\ pc[t] = "queued" => tried[t] = <<>> /\ result[t] = None
           /\ Finished(t) <=> result[t] # None
           /\ Len(tried[t]) <= 4

\* the whole claim: PoolBounded in every state, and every step keeps what a
\* task has done
ResolvedOnceInBoundedPool ==
    /\ []PoolBounded
    /\ [][\A t \in Tasks :
              /\ pc[t] # "queued" => pc'[t] # "queued"
              /\ Finished(t) => /\ pc'[t] \in {"done", "written"}
                                /\ result'[t] = result[t]
                                /\ tried'[t] = tried[t]
              /\ pc[t] = "written" => pc'[t] = "written"]_vars

\* the pool is full and a task waits in the queue
C14Witness ==
    /\ Cardinality({t \in Tasks : Running(t)}) = MAX_THREADS
    /\ \E t \in Tasks : pc[t] = "queued"
    /\ Cardinality(Tasks) > MAX_THREADS

(***************************************************************************)
(* C15: in every interleaving the list a layer call iterates is a          *)
(* permutation of its mirror list: when the call is at its loop, every     *)
(* configured mirror is in `candidates` exactly once.                      *)
(***************************************************************************)
CandidatesIsPermutation ==
    \A t \in Tasks :
        pc[t] = "request" =>
            /\ Len(candidates[t]) = Len(Apis(layer[t]))
            /\ \A m \in Range(Apis(layer[t])) :
                   Cardinality({i \in 1..Len(candidates[t]) : candidates[t][i] = m}) = 1

(***************************************************************************)
(* C16: the retry and hint protocol of a layer.  The mirrors of the list   *)
(* are requested in turn, each API_RETRIES times at most before the next;  *)
(* the call returns at the first usable URL; it returns None only when     *)
(* every configured mirror has been requested API_RETRIES times; a hint is *)
(* written only by a request that gave a URL, with the mirror requested,   *)
(* so a hint is None or a mirror of its list.                              *)
(***************************************************************************)
\* how often mirror m is in the list of requests
Count(requests, m) == Cardinality({i \in 1..Len(requests) : requests[i] = m})

\* the requests made so far are those of the list in turn, API_RETRIES each
AttemptsInTurn ==
    \A t \in Tasks :
        pc[t] = "request" =>
            /\ pos[t] \in 1..Len(candidates[t])
            /\ tries[t] \in 0..(API_RETRIES - 1)
            /\ Len(attempts[t]) = (pos[t] - 1) * API_RETRIES + tries[t]
            /\ \A i \in 1..Len(attempts[t]) :
                   attempts[t][i] = candidates[t][((i - 1) \div API_RETRIES) + 1]

HintIsMirror ==
    /\ _last_piped_ok \in {None} \cup Range(PIPED_APIS)
    /\ _last_invidious_ok \in {None} \cup Range(INVIDIOUS_APIS)

\* a task that has a URL from a layer has returned
ReturnsAtFirstUrl ==
    \A t \in Tasks :
        \A i \in 1..Len(tried[t]) :
            (tried[t][i][1] \in {"piped", "invidious"} /\ tried[t][i][2] # None) =>
                Finished(t) /\ i = Len(tried[t])

\* the step of task t in which its layer call returns None
GivesUp(t) ==
    /\ pc[t] = "request"
    /\ Len(tried'[t]) = Len(tried[t]) + 1
    /\ tried'[t][Len(tried'[t])] = <<layer[t], None>>

\* the step of task t in which its layer call returns a URL
Succeeds(t) ==
    /\ pc[t] = "request"
    /\ Len(tried'[t]) = Len(tried[t]) + 1
    /\ tried'[t][Len(tried'[t])][1] = layer[t]
    /\ tried'[t][Len(tried'[t])][2] # None

RetryAndHintProtocol ==
    /\ [](AttemptsInTurn /\ HintIsMirror /\ ReturnsAtFirstUrl)
    /\ [][/\ \A t \in Tasks :
                 GivesUp(t) =>
                     \A m \in Range(Apis(layer[t])) :
                         Count(Append(attempts[t], candidates[t][pos[t]]), m)
                             = API_RETRIES
          /\ _last_piped_ok' # _last_piped_ok =>
                 \E t \in Tasks : /\ Succeeds(t)
                                  /\ layer[t] = "piped"
                                  /\ _last_piped_ok' = candidates[t][pos[t]]
          /\ _last_invidious_ok' # _last_invidious_ok =>
                 \E t \in Tasks : /\ Succeeds(t)
                                  /\ layer[t] = "invidious"
                                  /\ _last_invidious_ok' = candidates[t][pos[t]]
          /\ \A t \in Tasks :
                 Succeeds(t) =>
                     IF layer[t] = "piped"
                     THEN _last_piped_ok' = candidates[t][pos[t]]
                     ELSE _last_invidious_ok' = candidates[t][pos[t]]]_vars

(***************************************************************************)
(* C17: when the hint is set at the start of a layer call (line 104 or 135 *)
(* reads a mirror), that mirror is the first one the call requests: it is  *)
(* the head of the list the loop goes through.                             *)
(***************************************************************************)
HintedMirrorFirst ==
    \A t \in Tasks :
        (pc[t] = "request" /\ hinted[t] # None) => candidates[t][1] = hinted[t]

(***************************************************************************)
(* C18: the API layers are for the entries whose URL holds youtube.com or  *)
(* youtu.be and a video id (v= or youtu.be/ followed by six or more of     *)
(* [A-Za-z0-9_-]).  The task of any other entry is never in a layer, makes *)
(* no mirror request, reads and writes no hint, and goes to yt-dlp and     *)
(* then to the fallback; the task of such an entry starts with Piped.      *)
(***************************************************************************)
\* six id characters follow position i of the URL
SixIdCharsAfter(url, i) ==
    \A k \in 1..6 : i + k <= Len(url) /\ IsIdChar(url[i + k])

HasVideoId(url) ==
    \E i \in 1..Len(url) :
        \/ MatchAt(<<"v","=">>, url, i) /\ SixIdCharsAfter(url, i + 1)
        \/ /\ MatchAt(<<"y","o","u","t","u",".","b","e","/">>, url, i)
           /\ SixIdCharsAfter(url, i + 8)

IsYouTubeUrl(url) ==
    \E i \in 1..Len(url) :
        \/ MatchAt(<<"y","o","u","t","u","b","e",".","c","o","m">>, url, i)
        \/ MatchAt(<<"y","o","u","t","u",".","b","e">>, url, i)

\* the URL of an entry: its line up to the first '|', trimmed
UrlOfLine(line) ==
    LET bar == FirstMatch(<<"|">>, line, 1)
    IN  Strip(IF bar = 0 THEN line ELSE SubSeq(line, 1, bar - 1))

EntryUrl(t) == UrlOfLine(lines[t])

\* those of them that are entries for the API layers
LinesForApiLayers ==
    {line \in EntryLines : IsYouTubeUrl(UrlOfLine(line)) /\ HasVideoId(UrlOfLine(line))}

\* the entry of task t is one for the API layers
ForApiLayers(t) == lines[t] \in LinesForApiLayers

InApiLayer(t) == pc[t] \in {"hint1", "hint2", "remove", "insert", "request"}

ApiLayersByEntry ==
    /\ \A t \in Tasks :
           pc[t] # "queued" =>
               IF ForApiLayers(t)
               THEN /\ tried[t] # <<>> => tried[t][1][1] = "piped"
                    /\ tried[t] = <<>> => InApiLayer(t) /\ layer[t] = "piped"
               ELSE /\ ~InApiLayer(t)
                    /\ layer[t] = "none"
                    /\ candidates[t] = <<>>
                    /\ attempts[t] = <<>>
                    /\ hinted[t] = None
                    /\ tried[t] # <<>> => tried[t][1][1] = "ytdlp"
                    /\ \A i \in 1..Len(tried[t]) :
                           tried[t][i][1] \in {"ytdlp", "fallback"}
    /\ (\A t \in Tasks : ~ForApiLayers(t)) =>
           _last_piped_ok = None /\ _last_invidious_ok = None

\* the whole claim: ApiLayersByEntry in every state, and a step that changes a
\* hint is a step of the task of an entry for the API layers
ApiLayersOnlyForYouTube ==
    /\ []ApiLayersByEntry
    /\ [][hintVars' # hintVars =>
              \A t \in Tasks : pc'[t] # pc[t] => ForApiLayers(t)]_vars

\* the entry of a URL of another site that holds v= and an id, resolved by
\* yt-dlp
C18Witness ==
    \E t \in Tasks :
        /\ Finished(t)
        /\ HasVideoId(EntryUrl(t))
        /\ ~IsYouTubeUrl(EntryUrl(t))
        /\ tried[t] = << <<"ytdlp", YTDLP_URL>> >>

(***************************************************************************)
(* C19: HLS before DASH.  For every answer of a mirror: with an HLS URL in *)
(* it (hls, hlsUrl) the layer returns that URL, whatever else the answer   *)
(* holds; it returns the DASH URL (dash, dashUrl) exactly when the answer  *)
(* has one and no HLS URL; with neither, Piped returns nothing, and        *)
(* Invidious returns the URL of the first adaptive format whose type is    *)
(* application/x-mpegurl (in any case) and that has a URL, or nothing.     *)
(***************************************************************************)
\* the value of key k of the answer, <<>> when it is missing or empty
Carried(data, k) == IF k \in DOMAIN data THEN data[k] ELSE <<>>

\* the adaptive formats of the answer that are HLS and have a URL
HlsFormats(data) ==
    LET fl == Carried(data, "adaptiveFormats")
    IN  {i \in 1..Len(fl) :
            /\ "type" \in DOMAIN fl[i]
            /\ "url" \in DOMAIN fl[i]
            /\ Lower(fl[i]["type"]) = Lower(MPEGURL_TYPE)
            /\ fl[i]["url"] # <<>>}

HlsPreferred ==
    (call # <<>> /\ call[1] \in {"piped", "invidious"} /\ returned # <<>>) =>
        LET data == call[2]
            hls == Carried(data, IF call[1] = "piped" THEN "hls" ELSE "hlsUrl")
            dash == Carried(data, IF call[1] = "piped" THEN "dash" ELSE "dashUrl")
            fmts == HlsFormats(data)
            url == returned[1]
        IN  /\ hls # <<>> => url = hls
            /\ (hls = <<>> /\ dash # <<>>) => url = dash
            /\ (hls = <<>> /\ dash = <<>>) =>
                   IF call[1] = "piped" \/ fmts = {}
                   THEN url = None
                   ELSE url = data["adaptiveFormats"]
                                  [CHOOSE i \in fmts : \A j \in fmts : i <= j]["url"]
            /\ url = DASH_URL => hls = <<>>
            /\ url = FMT_URL => hls = <<>> /\ dash = <<>>

\* an Invidious answer with an HLS URL, a DASH URL and an HLS adaptive format,
\* for which the layer has returned
C19Witness ==
    /\ call # <<>>
    /\ call[1] = "invidious"
    /\ returned = <<HLS_URL>>
    /\ Carried(call[2], "hlsUrl") = HLS_URL
    /\ Carried(call[2], "dashUrl") = DASH_URL
    /\ HlsFormats(call[2]) # {}

====
